---- MODULE Spec2Model ----
(***************************************************************************)
(* A model of src/ntp.py: the one-shot NTP client (NTPClient), its server  *)
(* fallback loop, the comparison with the local clock, the platform        *)
(* TimeSetter strategies and the command-line entry point main().          *)
(*                                                                         *)
(* Time values are Python floats.  They are modelled exactly, as signed    *)
(* counts of 2^-32 second held in four 16-bit limbs (most significant      *)
(* first), and every float operation rounds its exact result to the 53     *)
(* significant bits of an IEEE double (round-half-to-even).                *)
(***************************************************************************)
EXTENDS Integers, Sequences, FiniteSets, TLC

(***************************************************************************)
(* Bounds of the model.                                                    *)
(***************************************************************************)
MaxServers == 3          \* longest configured server list explored
MaxSkewHalves == 2       \* local clock read at base + 0 .. MaxSkewHalves/2 s

(***************************************************************************)
(* Optional[T]: None is the empty tuple, a value x is <<x>>.               *)
(***************************************************************************)
None == <<>>
Some(x) == <<x>>

(***************************************************************************)
(* Exact arithmetic on magnitudes <<m3, m2, m1, m0>>: the integer          *)
(* m3*2^48 + m2*2^32 + m1*2^16 + m0, in units of 2^-32 second.             *)
(***************************************************************************)
Limb == 256 * 256

Pow2(k) == 2 ^ k

RECURSIVE BitLen(_)
BitLen(n) == IF n = 0 THEN 0 ELSE 1 + BitLen(n \div 2)

\* Carries (or borrows) propagated upwards; the top limb keeps any excess.
MagNorm(x) ==
    LET s0 == x[4]
        s1 == x[3] + (s0 \div Limb)
        s2 == x[2] + (s1 \div Limb)
        s3 == x[1] + (s2 \div Limb)
    IN  <<s3, s2 % Limb, s1 % Limb, s0 % Limb>>

MagAdd(a, b) == MagNorm(<<a[1] + b[1], a[2] + b[2], a[3] + b[3], a[4] + b[4]>>)

\* a - b for a >= b
MagSub(a, b) == MagNorm(<<a[1] - b[1], a[2] - b[2], a[3] - b[3], a[4] - b[4]>>)

MagLess(a, b) ==
    \/ a[1] < b[1]
    \/ a[1] = b[1] /\ a[2] < b[2]
    \/ a[1] = b[1] /\ a[2] = b[2] /\ a[3] < b[3]
    \/ a[1] = b[1] /\ a[2] = b[2] /\ a[3] = b[3] /\ a[4] < b[4]

MagZero == <<0, 0, 0, 0>>

\* The nearest double (53 significant bits, ties to even) of a magnitude.
\* Magnitudes here are below 2^66, so at most 13 low bits are dropped and
\* only the lowest limb is rounded.
\* (The set of one element has m evaluated once.)
FloatRound(m) ==
    LET Round(v) ==
            IF v[1] < 32 THEN v
            ELSE LET shift == BitLen(v[1]) - 5
                     q     == Pow2(shift)
                     rem   == v[4] % q
                     base  == v[4] - rem
                     odd   == (v[4] \div q) % 2 = 1
                     up    == (2 * rem > q) \/ (2 * rem = q /\ odd)
                 IN  MagNorm(<<v[1], v[2], v[3],
                               IF up THEN base + q ELSE base>>)
    IN  CHOOSE r \in { Round(v) : v \in {m} } : TRUE

(***************************************************************************)
(* Floats: [neg, mag]; zero is kept non-negative.                          *)
(***************************************************************************)
Float(neg, m) == [neg |-> neg /\ m # MagZero, mag |-> m]

\* x - y, correctly rounded
FloatSub(x, y) ==
    IF x.neg # y.neg
    THEN Float(x.neg, FloatRound(MagAdd(x.mag, y.mag)))
    ELSE IF MagLess(x.mag, y.mag)
         THEN Float(~x.neg, FloatRound(MagSub(y.mag, x.mag)))
         ELSE Float(x.neg, FloatRound(MagSub(x.mag, y.mag)))

FloatAbs(x) == Float(FALSE, x.mag)

\* x <= y
FloatLe(x, y) ==
    IF x.neg /\ ~y.neg THEN TRUE
    ELSE IF ~x.neg /\ y.neg THEN FALSE
    ELSE IF x.neg THEN ~MagLess(x.mag, y.mag)
    ELSE ~MagLess(y.mag, x.mag)

FloatGt(x, y) == ~FloatLe(x, y)

\* A whole number of half seconds as a float.
Halves(k) == Float(FALSE, <<0, k \div 2, (k % 2) * 32768, 0>>)

(***************************************************************************)
(* Constants and configuration                                             *)
(***************************************************************************)
\* NTP_DELTA = 2208988800 = 33706 * 2^16 + 32384 seconds
NTP_DELTA == Float(FALSE, <<33706, 32384, 0, 0>>)

DEFAULT_SERVERS == <<"pool.ntp.org", "time.google.com", "time.windows.com">>

DEFAULT_TIMEOUT == 5

\* SYNC_THRESHOLD = 1.0 second
SYNC_THRESHOLD == Halves(2)

NTP_PORT == 123

(***************************************************************************)
(* Packet codec                                                            *)
(***************************************************************************)
\* A builder that shifts the version by two bits instead of three.
BuildPacketShiftTwo(vn) == <<0 * 64 + vn * 4 + 3>> \o [i \in 1..47 |-> 0]

\* NTPClient._build_packet: li = 0, mode = 3; the three bit fields do not
\* overlap, so the bitwise OR is the sum.  47 zero bytes follow.
BuildPacket(vn) == <<0 * 64 + vn * 8 + 3>> \o [i \in 1..47 |-> 0]

\* Python's data[lo:hi] on a byte string (0-based, hi exclusive, clipped).
Slice(data, lo, hi) ==
    SubSeq(data, lo + 1, IF hi < Len(data) THEN hi ELSE Len(data))

\* struct.unpack("!II", buf): two big-endian unsigned 32-bit integers, each
\* given as its two 16-bit limbs; None stands for struct.error (buf is not
\* exactly 8 bytes long).
UnpackII(buf) ==
    IF Len(buf) # 8 THEN None
    ELSE Some([seconds  |-> <<buf[1] * 256 + buf[2], buf[3] * 256 + buf[4]>>,
               fraction |-> <<buf[5] * 256 + buf[6], buf[7] * 256 + buf[8]>>])

\* A conversion that uses the whole seconds only.
NtpToUnixDropsFraction(seconds, fraction) ==
    FloatSub(Float(FALSE, <<seconds[1], seconds[2], 0, 0>>), NTP_DELTA)

\* ntp_timestamp = seconds + fraction / 2**32 ; unix = ntp_timestamp - NTP_DELTA
NtpToUnix(seconds, fraction) ==
    LET ntp_timestamp ==
            Float(FALSE, FloatRound(<<seconds[1], seconds[2],
                                      fraction[1], fraction[2]>>))
    IN  FloatSub(ntp_timestamp, NTP_DELTA)

\* A decoder that reads the receive timestamp (bytes 32..39) and checks the
\* length for that field only.
ParseReplyReceiveField(data) ==
    IF Len(data) < 40 THEN [kind |-> "short", ts |-> None]
    ELSE LET u == UnpackII(Slice(data, 32, 40))
         IN  IF u = None THEN [kind |-> "struct_error", ts |-> None]
             ELSE [kind |-> "ok",
                   ts |-> Some(NtpToUnix(u[1].seconds, u[1].fraction))]

\* A decoder that rejects a reply whose transmit seconds are zero.
ParseReplyRejectsZero(data) ==
    IF Len(data) < 48 THEN [kind |-> "short", ts |-> None]
    ELSE LET u == UnpackII(Slice(data, 40, 48))
         IN  IF u = None THEN [kind |-> "struct_error", ts |-> None]
             ELSE IF u[1].seconds = <<0, 0>>
                  THEN [kind |-> "invalid", ts |-> None]
                  ELSE [kind |-> "ok",
                        ts |-> Some(NtpToUnix(u[1].seconds, u[1].fraction))]

\* The part of get_ntp_time after the datagram was received: the length
\* check, the unpacking and the conversion.  kind names the failure.
ParseReply(data) ==
    IF Len(data) < 48 THEN [kind |-> "short", ts |-> None]
    ELSE LET u == UnpackII(Slice(data, 40, 48))
         IN  IF u = None THEN [kind |-> "struct_error", ts |-> None]
             ELSE [kind |-> "ok",
                   ts |-> Some(NtpToUnix(u[1].seconds, u[1].fraction))]

(***************************************************************************)
(* Inputs explored                                                         *)
(***************************************************************************)
\* Transmit timestamps (bytes 40..47 of a reply).  236 * 2^24 NTP seconds
\* is 1750434176 Unix seconds.
TxZero == <<0, 0, 0, 0, 0, 0, 0, 0>>       \* Unix -2208988800.0

TxSamples ==
    { TxZero,
      <<236, 0, 0, 0, 0, 0, 0, 0>>,        \* base
      <<236, 0, 0, 0, 128, 0, 0, 0>>,      \* base + 0.5 s
      <<236, 0, 0, 2, 0, 0, 0, 0>> }       \* base + 2 s

ShortLens == {0, 47}
LongLens == {48, 60}

MkReply(n, fill, tx) ==
    [i \in 1..n |-> IF i \in 41..48 THEN tx[i - 40] ELSE fill]

\* Datagrams sock.recvfrom(512) may return: short ones, 48-byte ones with
\* every sample in the transmit field, and all-zero transmit fields in
\* every length.
Replies ==
    { MkReply(n, 255, TxZero) : n \in ShortLens }
    \cup { MkReply(48, fill, tx) : fill \in {0, 255}, tx \in TxSamples }
    \cup { MkReply(n, fill, TxZero) : n \in LongLens, fill \in {0, 255} }

\* time.time(): base + k/2 seconds, base = 1750434176 = 26709 * 2^16 + 33152
LocalClock(k) ==
    Float(FALSE, <<26709, 33152 + (k \div 2), (k % 2) * 32768, 0>>)

LocalClocks == { LocalClock(k) : k \in 0..MaxSkewHalves }

\* cfg.sync_threshold: the default, or zero (--threshold 0)
Thresholds == {SYNC_THRESHOLD, Halves(0)}

\* cfg.timeout: the default, or a negative value (sock.settimeout raises
\* ValueError).  A zero timeout only removes the "timeout" outcome.
Timeouts == {DEFAULT_TIMEOUT, -1}

ServerNames == {"a.example", "b.example"}

RECURSIVE SeqsUpTo(_, _)
SeqsUpTo(S, n) ==
    IF n = 0 THEN {<<>>}
    ELSE LET shorter == SeqsUpTo(S, n - 1)
         IN  shorter \cup { Append(q, x) : q \in shorter, x \in S }

\* NTPConfig.servers: the default list, or any non-empty list a caller
\* configures.
ServerLists ==
    {DEFAULT_SERVERS} \cup (SeqsUpTo(ServerNames, MaxServers) \ {<<>>})

\* The server argument: None, the empty string, or a name.
Overrides == {None, Some(""), Some("a.example")}

\* platform.system().lower()
Platforms == {"windows", "linux", "darwin", "freebsd", "openbsd", "netbsd",
              "sunos"}

TimeSetters == {None, Some("WindowsTimeSetter"), Some("LinuxTimeSetter")}

(***************************************************************************)
(* State                                                                   *)
(***************************************************************************)
VARIABLES
    pc,            \* the position of the run (see the actions)
    entry,         \* "main": the command line; "api": NTPClient.sync() called
    servers,       \* cfg.servers
    timeout,       \* cfg.timeout
    sync_threshold,\* cfg.sync_threshold
    server,        \* sync()'s server argument (args.server)
    set_system,    \* sync()'s set_system argument (args.set_system)
    time_setter,   \* sync()'s time_setter argument
    idx,           \* query(): position of the next candidate (1-based)
    contacted,     \* servers get_ntp_time was called for, in call order
    sockOpen,      \* UDP sockets currently open
    returned,      \* what each finished get_ntp_time call returned
    lastFail,      \* how the latest get_ntp_time call ended
    lastLen,       \* len(data) of the latest datagram received
    ntp_ts,        \* query()'s return value
    local_ts,      \* time.time() read by sync()
    diff,          \* abs(ntp_ts - local_ts)
    setterCalls,   \* arguments of the set_system_time calls made
    stratLog,      \* strategies the writer attempted: <<name, outcome>>
    setterReturned,\* what set_system_time returned
    result,        \* sync()'s return value
    exc,           \* the exception that left sync(), or "none"
    exitStatus,    \* the status main() passed to sys.exit
    fn,            \* the pure function exercised on its own, or "none"
    arg,           \* its argument
    ret            \* its return value, None before the call

vars == <<pc, entry, servers, timeout, sync_threshold, server, set_system,
          time_setter, idx, contacted, sockOpen, returned, lastFail, lastLen,
          ntp_ts,
          local_ts, diff, setterCalls, stratLog, setterReturned, result, exc,
          exitStatus, fn, arg, ret>>

cfgVars == <<servers, timeout, sync_threshold>>
argVars == <<server, set_system, time_setter>>
queryVars == <<idx, contacted, sockOpen, returned, lastFail, lastLen, ntp_ts>>
syncVars == <<local_ts, diff, setterCalls, stratLog, setterReturned, result>>
callVars == <<fn, arg, ret>>
progVars == <<pc, entry, cfgVars, argVars, queryVars, syncVars, exc,
              exitStatus>>

ProgramInit ==
    /\ pc = "start"
    /\ entry \in {"main", "api"}
    /\ servers = DEFAULT_SERVERS
    /\ timeout = DEFAULT_TIMEOUT
    /\ sync_threshold = SYNC_THRESHOLD
    /\ server = None
    /\ set_system = FALSE
    /\ time_setter = None
    /\ idx = 1
    /\ contacted = <<>>
    /\ sockOpen = 0
    /\ returned = <<>>
    /\ lastFail = "none"
    /\ lastLen = None
    /\ ntp_ts = None
    /\ local_ts = None
    /\ diff = None
    /\ setterCalls = <<>>
    /\ stratLog = <<>>
    /\ setterReturned = None
    /\ result = None
    /\ exc = "none"
    /\ exitStatus = None

Init ==
    /\ ProgramInit
    /\ fn = "none"
    /\ arg = None
    /\ ret = None

(***************************************************************************)
(* main(): argument parsing, logging, writer selection                     *)
(***************************************************************************)
\* parse_args(): --server, --set-system, --timeout, --threshold; main()
\* builds NTPConfig from them, servers keeping the default list.
ParseArgs ==
    /\ pc = "start" /\ entry = "main"
    /\ server' \in Overrides
    /\ set_system' \in BOOLEAN
    /\ timeout' \in Timeouts
    /\ sync_threshold' \in Thresholds
    /\ pc' = "init_logging"
    /\ UNCHANGED <<entry, callVars,
                   servers, time_setter, queryVars, syncVars, exc,
                   exitStatus>>

InitLogging ==
    /\ pc = "init_logging"
    /\ pc' = "get_time_setter"
    /\ UNCHANGED <<entry, callVars, cfgVars, argVars, queryVars, syncVars, exc,
                   exitStatus>>

\* get_time_setter()
GetTimeSetter(current) ==
    IF current = "windows" THEN Some("WindowsTimeSetter")
    ELSE IF current \in {"linux", "darwin", "freebsd", "openbsd", "netbsd"}
         THEN Some("LinuxTimeSetter")
         ELSE None

\* time_setter = get_time_setter() if args.set_system else None; then
\* client.sync(...) is entered.
SelectTimeSetter ==
    /\ pc = "get_time_setter"
    /\ \E current \in Platforms :
          time_setter' = IF set_system THEN GetTimeSetter(current) ELSE None
    /\ pc' = "query"
    /\ UNCHANGED <<entry, callVars,
                   cfgVars, server, set_system, queryVars, syncVars,
                   exc, exitStatus>>

\* NTPClient(cfg).sync(server, set_system, time_setter) called by a program
\* that uses the class directly: any configuration, any arguments.
CallSync ==
    /\ pc = "start" /\ entry = "api"
    /\ servers' \in ServerLists
    /\ timeout' \in Timeouts
    /\ sync_threshold' \in Thresholds
    /\ server' \in Overrides
    /\ set_system' \in BOOLEAN
    /\ time_setter' \in TimeSetters
    /\ pc' = "query"
    /\ UNCHANGED <<entry, callVars, queryVars, syncVars, exc, exitStatus>>

(***************************************************************************)
(* NTPClient.query and get_ntp_time                                        *)
(***************************************************************************)
\* Python truthiness of an Optional[str]
Truthy(s) == s # None /\ s[1] # ""

\* Variant: the configured list is still tried after the override.
CandidatesOverrideFirst ==
    IF Truthy(server) THEN <<server[1]>> \o servers ELSE servers

\* candidates = [server] if server else self.cfg.servers
Candidates == IF Truthy(server) THEN <<server[1]>> ELSE servers

\* Variant: the except OSError clause is missing.
CaughtWithoutOSError(e) == e \in {"timeout", "gaierror"}

\* The two except clauses of get_ntp_time: (socket.timeout,
\* socket.gaierror) and OSError.  Any other exception leaves get_ntp_time.
Caught(e) == e \in {"timeout", "gaierror", "oserror"}

\* The except clause around struct.unpack.
CaughtUnpack(e) == e = "struct_error"

\* What sendto / recvfrom may raise.
NetErrors == {"timeout", "gaierror", "oserror"}

\* Variant: the loop does not return on a timestamp.
AfterAttemptNoShortCircuit(ts) == "query"

\* How the loop of query() goes on after get_ntp_time returned ts: return
\* it (sync goes on to compare) or take the next candidate.
AfterAttempt(ts) == IF ts # None THEN "comparing" ELSE "query"

\* get_ntp_time ended by raising e inside its first try block: absorbed
\* (logged, None returned) or passed on to the callers of query().
RaiseInAttempt(e) ==
    IF Caught(e)
    THEN /\ returned' = Append(returned, None)
         /\ lastFail' = e
         /\ idx' = idx + 1
         /\ pc' = AfterAttempt(None)
         /\ exc' = exc
    ELSE /\ exc' = e
         /\ pc' = "raised"
         /\ UNCHANGED <<returned, lastFail, idx>>

\* Variant: leaving the with block keeps the socket open.
WithExitLeaks(n) == n

\* Leaving `with socket.socket(...) as sock:` by any path closes the socket:
\* the number of open sockets after it, given the number n inside it.
WithExit(n) == n - 1

\* The for loop takes the next candidate and get_ntp_time opens its socket;
\* sock.settimeout raises ValueError for a negative timeout (the with block
\* closes the socket on the way out).
OpenSocket ==
    /\ pc = "query" /\ idx <= Len(Candidates)
    /\ contacted' = Append(contacted, Candidates[idx])
    /\ IF timeout < 0
       THEN /\ sockOpen' = WithExit(sockOpen + 1)
            /\ RaiseInAttempt("ValueError")
       ELSE /\ sockOpen' = sockOpen + 1
            /\ pc' = "exchange"
            /\ UNCHANGED <<returned, lastFail, idx, exc>>
    /\ UNCHANGED <<entry, callVars, cfgVars, argVars, lastLen, ntp_ts,
                   syncVars, exitStatus>>

\* sendto or recvfrom raises: the socket is released, then the except
\* clauses decide.
ExchangeFails ==
    /\ pc = "exchange"
    /\ sockOpen' = WithExit(sockOpen)
    /\ \E e \in NetErrors : RaiseInAttempt(e)
    /\ UNCHANGED <<entry, callVars, cfgVars, argVars, contacted, lastLen,
                   ntp_ts, syncVars, exitStatus>>

\* A datagram arrives: the socket is released and the datagram parsed;
\* query() returns on the first timestamp and goes on to the next
\* candidate otherwise.
ExchangeReplies ==
    /\ pc = "exchange"
    /\ sockOpen' = WithExit(sockOpen)
    /\ \E d \in Replies :
          LET r == ParseReply(d)
          IN  /\ lastLen' = Some(Len(d))
              /\ IF r.kind = "struct_error" /\ ~CaughtUnpack(r.kind)
                 THEN /\ exc' = r.kind
                      /\ pc' = "raised"
                      /\ UNCHANGED <<returned, lastFail, idx, ntp_ts>>
                 ELSE /\ returned' = Append(returned, r.ts)
                      /\ lastFail' = r.kind
                      /\ ntp_ts' = r.ts
                      /\ pc' = AfterAttempt(r.ts)
                      /\ idx' = IF AfterAttempt(r.ts) = "query"
                                THEN idx + 1 ELSE idx
                      /\ exc' = exc
    /\ UNCHANGED <<entry, callVars,
                   cfgVars, argVars, contacted, syncVars, exitStatus>>

\* Variant: sync() reports success although no server answered.
QueryFailedReturnsTrue ==
    /\ pc = "query" /\ idx > Len(Candidates)
    /\ result' = Some(TRUE)
    /\ pc' = "returned"
    /\ UNCHANGED <<entry, callVars,
                   cfgVars, argVars, queryVars, local_ts, diff,
                   setterCalls, stratLog, setterReturned, exc, exitStatus>>

\* Variant: when every candidate failed query() neither returns nor goes on.
QueryFailedBlocks ==
    /\ pc = "query" /\ idx > Len(Candidates)
    /\ UNCHANGED vars

\* Variant: when every candidate failed the list is tried again.
QueryFailedRetries ==
    /\ pc = "query" /\ idx > Len(Candidates)
    /\ idx' = 1
    /\ UNCHANGED <<pc, entry, callVars, cfgVars, argVars, contacted, sockOpen,
                   returned, lastFail, lastLen, ntp_ts, syncVars, exc,
                   exitStatus>>

\* Every candidate failed: query() returns None and sync() returns False.
QueryFailed ==
    /\ pc = "query" /\ idx > Len(Candidates)
    /\ result' = Some(FALSE)
    /\ pc' = "returned"
    /\ UNCHANGED <<entry, callVars,
                   cfgVars, argVars, queryVars, local_ts, diff,
                   setterCalls, stratLog, setterReturned, exc, exitStatus>>

\* A signed difference in place of the absolute one.
OffsetSigned(ntp, local) == FloatSub(ntp, local)

(***************************************************************************)
(* NTPClient.sync after the query                                          *)
(***************************************************************************)
\* diff = abs(ntp_ts - local_ts)
Offset(ntp, local) == FloatAbs(FloatSub(ntp, local))

\* local_ts = time.time(); diff = abs(ntp_ts - local_ts); both times and the
\* difference are logged.
Compare ==
    /\ pc = "comparing"
    /\ \E now \in LocalClocks :
          /\ local_ts' = Some(now)
          /\ diff' = Some(Offset(ntp_ts[1], now))
    /\ pc' = "deciding"
    /\ UNCHANGED <<entry, callVars,
                   cfgVars, argVars, queryVars, setterCalls, stratLog,
                   setterReturned, result, exc, exitStatus>>

\* Variant: diff < threshold instead of diff <= threshold.
DecisionStrictThreshold(setSystem, d, threshold, setter) ==
    IF setSystem
    THEN IF FloatLe(d, threshold) /\ d # threshold THEN "in_sync"
         ELSE IF setter = None THEN "unsupported"
         ELSE "write"
    ELSE "skip"

\* Variant: a missing writer is not reported.
DecisionMissingWriterSucceeds(setSystem, d, threshold, setter) ==
    IF setSystem
    THEN IF FloatLe(d, threshold) THEN "in_sync"
         ELSE IF setter = None THEN "skip"
         ELSE "write"
    ELSE "skip"

\* Variant: set_system is not consulted when a writer was passed.
DecisionIgnoresFlag(setSystem, d, threshold, setter) ==
    IF setSystem \/ setter # None
    THEN IF FloatLe(d, threshold) THEN "in_sync"
         ELSE IF setter = None THEN "unsupported"
         ELSE "write"
    ELSE "skip"

\* The branch of sync() on set_system, the threshold and the writer:
\* "skip" (query only), "in_sync" (diff <= threshold), "unsupported" (no
\* writer) or "write".
Decision(setSystem, d, threshold, setter) ==
    IF setSystem
    THEN IF FloatLe(d, threshold) THEN "in_sync"
         ELSE IF setter = None THEN "unsupported"
         ELSE "write"
    ELSE "skip"

\* The first step of the writer's set_system_time.
WriterEntry(setter) ==
    IF setter = Some("WindowsTimeSetter") THEN "win_api" ELSE "libc"

Decide ==
    /\ pc = "deciding"
    /\ LET d == Decision(set_system, diff[1], sync_threshold, time_setter)
       IN  CASE d = "write" ->
                  /\ setterCalls' = Append(setterCalls, ntp_ts[1])
                  /\ pc' = WriterEntry(time_setter)
                  /\ result' = result
             [] d = "unsupported" ->
                  /\ result' = Some(FALSE)
                  /\ pc' = "returned"
                  /\ setterCalls' = setterCalls
             [] OTHER ->
                  /\ result' = Some(TRUE)
                  /\ pc' = "returned"
                  /\ setterCalls' = setterCalls
    /\ UNCHANGED <<entry, callVars,
                   cfgVars, argVars, queryVars, local_ts, diff,
                   stratLog, setterReturned, exc, exitStatus>>

\* Variant: the writer's result is dropped.
SyncResultIgnoresWriter(b) == TRUE

\* return time_setter.set_system_time(ntp_ts)
SyncResultOfWrite(b) == b

(***************************************************************************)
(* The writers                                                             *)
(***************************************************************************)
\* WindowsTimeSetter.set_system_time: SetSystemTime returns non-zero
\* ("ok") or zero ("api_fail"), or something in the try block raises an
\* Exception ("exception"); only "ok" returns True.
WinOutcomes == {"ok", "api_fail", "exception"}

\* Variant: the except clause returns True.
WinResultExceptionIsSuccess(o) == o # "api_fail"

WinResult(o) == o = "ok"

WinSetSystemTime ==
    /\ pc = "win_api"
    /\ \E o \in WinOutcomes :
          /\ stratLog' = Append(stratLog, <<"A", o>>)
          /\ setterReturned' = Some(WinResult(o))
          /\ result' = Some(SyncResultOfWrite(WinResult(o)))
    /\ pc' = "returned"
    /\ UNCHANGED <<entry, callVars,
                   cfgVars, argVars, queryVars, local_ts, diff,
                   setterCalls, exc, exitStatus>>

\* LinuxTimeSetter._set_time_via_libc: clock_settime returns 0 ("ok") or
\* not ("fail"), or something in the try block raises an Exception.
LibcOutcomes == {"ok", "fail", "exception"}

LibcResult(o) == o = "ok"

\* Variant: the date command runs whatever the libc attempt returned.
AfterLibcAlwaysFallsBack(ok) == "date_cmd"

\* LinuxTimeSetter.set_system_time once the libc attempt returned ok:
\* return True at once, else go on to the date command.
AfterLibc(ok) == IF ok THEN "returned" ELSE "date_cmd"

SetTimeViaLibc ==
    /\ pc = "libc"
    /\ \E o \in LibcOutcomes :
          /\ stratLog' = Append(stratLog, <<"A", o>>)
          /\ pc' = AfterLibc(LibcResult(o))
          /\ IF AfterLibc(LibcResult(o)) = "returned"
             THEN /\ setterReturned' = Some(TRUE)
                  /\ result' = Some(SyncResultOfWrite(TRUE))
             ELSE UNCHANGED <<setterReturned, result>>
    /\ UNCHANGED <<entry, callVars,
                   cfgVars, argVars, queryVars, local_ts, diff,
                   setterCalls, exc, exitStatus>>

\* LinuxTimeSetter._set_time_via_date_cmd: `sudo date -s ...` exits 0
\* ("ok"), exits non-zero (CalledProcessError) or is not found.
DateOutcomes == {"ok", "CalledProcessError", "FileNotFoundError"}

DateResult(o) == o = "ok"

SetTimeViaDateCmd ==
    /\ pc = "date_cmd"
    /\ \E o \in DateOutcomes :
          /\ stratLog' = Append(stratLog, <<"B", o>>)
          /\ setterReturned' = Some(DateResult(o))
          /\ result' = Some(SyncResultOfWrite(DateResult(o)))
    /\ pc' = "returned"
    /\ UNCHANGED <<entry, callVars,
                   cfgVars, argVars, queryVars, local_ts, diff,
                   setterCalls, exc, exitStatus>>

(***************************************************************************)
(* main(): the exit status; interrupts                                     *)
(***************************************************************************)
\* Variant: the status does not depend on what sync() returned.
StatusOfResultAlwaysZero(ok) == 0

\* 0 if ok else 1
StatusOfResult(ok) == IF ok THEN 0 ELSE 1

\* except KeyboardInterrupt: 130 ; except Exception: 1
StatusOfException(e) == IF e = "KeyboardInterrupt" THEN 130 ELSE 1

\* sys.exit(0 if ok else 1)
ExitNormally ==
    /\ pc = "returned" /\ entry = "main"
    /\ exitStatus' = Some(StatusOfResult(result[1]))
    /\ pc' = "exited"
    /\ UNCHANGED <<entry, callVars,
                   cfgVars, argVars, queryVars, syncVars, exc>>

\* except KeyboardInterrupt: sys.exit(130); except Exception: sys.exit(1)
ExitOnException ==
    /\ pc = "raised" /\ entry = "main"
    /\ exitStatus' = Some(StatusOfException(exc))
    /\ pc' = "exited"
    /\ UNCHANGED <<entry, callVars,
                   cfgVars, argVars, queryVars, syncVars, exc>>

\* Positions of main() before the try block.
BeforeTry == {"start", "init_logging", "get_time_setter"}

\* Positions inside sync().
InSync == {"query", "exchange", "comparing", "deciding", "win_api", "libc",
           "date_cmd"}

\* KeyboardInterrupt raised at the current position.  It is no Exception,
\* so neither get_ntp_time nor the writers absorb it; an open socket is
\* closed by its with block.  Inside sync() it reaches the caller (main's
\* try block); before the try block nothing in main() handles it.
Interrupt ==
    /\ \/ pc \in InSync
       \/ pc \in BeforeTry /\ entry = "main"
    /\ exc' = "KeyboardInterrupt"
    /\ sockOpen' = IF pc = "exchange" THEN WithExit(sockOpen) ELSE sockOpen
    /\ pc' = IF pc \in InSync THEN "raised" ELSE "unhandled"
    /\ UNCHANGED <<entry, callVars, cfgVars, argVars, idx, contacted, returned,
                   lastFail, lastLen, ntp_ts, syncVars, exitStatus>>

Next ==
    \/ ParseArgs
    \/ InitLogging
    \/ SelectTimeSetter
    \/ CallSync
    \/ OpenSocket
    \/ ExchangeFails
    \/ ExchangeReplies
    \/ QueryFailed
    \/ Compare
    \/ Decide
    \/ WinSetSystemTime
    \/ SetTimeViaLibc
    \/ SetTimeViaDateCmd
    \/ ExitNormally
    \/ ExitOnException
    \/ Interrupt

Spec == Init /\ [][Next]_vars

\* The steps the program takes itself; an interrupt comes from outside.
ProgramStep ==
    \/ ParseArgs
    \/ InitLogging
    \/ SelectTimeSetter
    \/ CallSync
    \/ OpenSocket
    \/ ExchangeFails
    \/ ExchangeReplies
    \/ QueryFailed
    \/ Compare
    \/ Decide
    \/ WinSetSystemTime
    \/ SetTimeViaLibc
    \/ SetTimeViaDateCmd
    \/ ExitNormally
    \/ ExitOnException

\* The interpreter always runs the next statement, and every socket
\* exchange and writer call returns or raises: a run does not stop while
\* the program has a step to take.  Interrupts may or may not happen.
FairSpec == Spec /\ WF_vars(ProgramStep)

(***************************************************************************)
(* The pure functions on their own: each run draws one function and one    *)
(* argument and makes the call.                                            *)
(***************************************************************************)
\* Transmit fields whose low bits a double cannot keep, next to TxSamples.
CodecTx ==
    TxSamples \cup
    { <<236, 0, 0, 0, 0, 0, 0, 1>>,             \* base + 2^-32 s
      <<236, 0, 0, 0, 0, 0, 4, 0>>,             \* base + 2^-22 s
      <<236, 0, 0, 0, 0, 0, 12, 0>>,            \* base + 3 * 2^-22 s
      <<131, 170, 126, 128, 0, 0, 0, 0>>,       \* NTP_DELTA: Unix 0.0
      <<131, 170, 126, 128, 64, 0, 0, 0>>,      \* Unix 0.25
      <<2, 0, 0, 0, 0, 0, 0, 1>>,               \* 2^25 s + 2^-32 s
      <<255, 255, 255, 255, 255, 255, 255, 255>> }

CodecLens == {0, 8, 40, 47, 48, 49, 60}

\* Datagrams handed to the decoding part of get_ntp_time.
Datagrams ==
    { MkReply(n, fill, tx) : n \in CodecLens, fill \in {0, 255},
                             tx \in CodecTx }

\* cfg.version: the values of the 3-bit VN field
Versions == 0..7

\* Timestamps handed to abs(ntp_ts - local_ts).
ClockValues ==
    { Float(FALSE, MagZero),
      Float(FALSE, <<0, 1000, 0, 0>>),          \* 1000.0
      Float(FALSE, <<0, 1000, 32768, 0>>),      \* 1000.5
      Float(FALSE, <<0, 1005, 0, 0>>),          \* 1005.0
      Float(TRUE, <<0, 5, 0, 0>>),              \* -5.0
      NtpToUnix(<<0, 0>>, <<0, 0>>),            \* -2208988800.0
      LocalClock(0),
      LocalClock(1) }

PureInit ==
    /\ ProgramInit
    /\ entry = "api"
    /\ \/ fn = "parse_reply"  /\ arg \in Datagrams
       \/ fn = "_build_packet" /\ arg \in Versions
       \/ fn = "offset" /\ arg \in ClockValues \X ClockValues
    /\ ret = None

\* get_ntp_time from the length check on, applied to the datagram
ApplyParseReply ==
    /\ fn = "parse_reply" /\ ret = None
    /\ ret' = Some(ParseReply(arg))
    /\ UNCHANGED <<fn, arg, progVars>>

\* self._build_packet() with cfg.version = arg
ApplyBuildPacket ==
    /\ fn = "_build_packet" /\ ret = None
    /\ ret' = Some(BuildPacket(arg))
    /\ UNCHANGED <<fn, arg, progVars>>

\* diff = abs(ntp_ts - local_ts) with ntp_ts = arg[1], local_ts = arg[2]
ApplyOffset ==
    /\ fn = "offset" /\ ret = None
    /\ ret' = Some(Offset(arg[1], arg[2]))
    /\ UNCHANGED <<fn, arg, progVars>>

PureNext ==
    \/ ApplyParseReply
    \/ ApplyBuildPacket
    \/ ApplyOffset

PureSpec == PureInit /\ [][PureNext]_vars

(***************************************************************************)
(* Properties                                                              *)
(***************************************************************************)
\* sync() returned (and, from the command line, main() may have exited).
Done == pc = "returned" \/ (pc = "exited" /\ exc = "none")

\* Positions inside a writer's set_system_time.
InWriter == {"win_api", "libc", "date_cmd"}

\* Every candidate of this query() was tried and returned None.
AllFailed ==
    /\ Len(returned) = Len(Candidates)
    /\ \A i \in 1..Len(returned) : returned[i] = None

\* The per-server failure kinds of get_ntp_time.
FailureKinds == {"gaierror", "timeout", "oserror", "short", "struct_error"}

\* C1: with no server override, query() calls get_ntp_time for the
\* configured servers in list order; every server contacted follows only
\* failed attempts (nothing is contacted after a success); the timestamp
\* returned is that of the first successful attempt, which is the last
\* attempt made; None is returned only once every server was tried.
C1_FirstSuccessInListOrder ==
    server = None =>
        /\ Len(contacted) <= Len(servers)
        /\ \A i \in 1..Len(contacted) : contacted[i] = servers[i]
        /\ Len(returned) <= Len(contacted)
        /\ \A i \in 1..Len(contacted) : \A j \in 1..(i - 1) :
              j <= Len(returned) /\ returned[j] = None
        /\ ntp_ts # None =>
              /\ Len(returned) = Len(contacted)
              /\ returned[Len(returned)] = ntp_ts
        /\ (ntp_ts = None /\ result # None) => Len(returned) = Len(servers)

\* C1 witness: list [A, B, C], A and B fail, C answers, sync() completes.
C1_Witness ==
    /\ server = None
    /\ Len(servers) = 3
    /\ Len(returned) = 3
    /\ returned[1] = None /\ returned[2] = None
    /\ ntp_ts # None /\ ntp_ts = returned[3]
    /\ result = Some(TRUE)

\* C2: once every candidate has failed, query() has no timestamp, sync()
\* never reaches the comparison or a writer, and when it returns it returns
\* False, whatever set_system and time_setter are.
C2_AllFailMeansFailure ==
    AllFailed =>
        /\ ntp_ts = None
        /\ pc \in {"start", "query", "returned", "exited", "raised"}
        /\ local_ts = None /\ diff = None
        /\ setterCalls = <<>> /\ stratLog = <<>> /\ setterReturned = None
        /\ Done => result = Some(FALSE)

\* C2 witness: three servers all failed in write mode with a writer.
C2_Witness ==
    /\ AllFailed
    /\ Len(returned) = 3
    /\ set_system /\ time_setter # None
    /\ result = Some(FALSE)

\* C3: none of the per-server failure kinds leaves query() as an exception;
\* an attempt that ended in one of them returned None; sync() gives up
\* without a timestamp only after every candidate was tried, and after
\* such a failure the next candidate, if any, can be contacted.
C3_FailuresAbsorbed ==
    /\ exc \notin FailureKinds
    /\ lastFail \in FailureKinds =>
          /\ Len(returned) >= 1
          /\ returned[Len(returned)] = None
    /\ (Done /\ ntp_ts = None) =>
          /\ Len(contacted) = Len(Candidates)
          /\ Len(returned) = Len(Candidates)
    /\ (lastFail \in FailureKinds /\ pc = "query" /\ idx <= Len(Candidates))
          => ENABLED OpenSocket

\* C3 witness: the second candidate is being contacted after the first
\* ended in a socket error.
C3_Witness ==
    /\ lastFail = "oserror"
    /\ returned = <<None>>
    /\ Len(contacted) = 2
    /\ pc = "exchange"

\* What C4 says of a run with the override in force.
OverrideOnly ==
    /\ Len(contacted) <= 1
    /\ \A i \in 1..Len(contacted) : contacted[i] = server[1]
    /\ Done =>
          /\ Len(contacted) = 1
          /\ Len(returned) = 1
          /\ ntp_ts = returned[1]
          /\ returned[1] = None => result = Some(FALSE)

\* C4 as stated: whenever a server override is given (not None), only that
\* server is contacted, exactly once, and its outcome is the result.
C4_AnyOverrideOnly == server # None => OverrideOnly

\* C4 amended: a non-empty server override is the only server contacted,
\* exactly once, and its timestamp or failure is the result.  (An empty
\* string is falsy: the configured list is used.)
C4_NonEmptyOverrideOnly == Truthy(server) => OverrideOnly

\* C4 witness: the override failed and no configured server was contacted.
C4_Witness ==
    /\ Truthy(server)
    /\ Len(servers) >= 2
    /\ contacted = <<server[1]>>
    /\ returned = <<None>>
    /\ result = Some(FALSE)

\* Write mode with a timestamp, an offset above the threshold and a writer.
WriteCase ==
    /\ set_system
    /\ time_setter # None
    /\ diff # None
    /\ FloatGt(diff[1], sync_threshold)

\* C5: in write mode with offset > threshold and a writer, set_system_time
\* is called exactly once, with the queried timestamp, and sync() returns
\* what it returned.
C5_WriterCalledOnceWithQueriedTime ==
    WriteCase =>
        /\ Len(setterCalls) <= 1
        /\ \A i \in 1..Len(setterCalls) : setterCalls[i] = ntp_ts[1]
        /\ (pc \in InWriter \/ Done) => setterCalls = <<ntp_ts[1]>>
        /\ Done => /\ setterReturned # None
                   /\ result = setterReturned

\* C5 witness: threshold 1.0, offset 2.0, the writer called once and its
\* False returned by sync().
C5_Witness ==
    /\ WriteCase
    /\ sync_threshold = SYNC_THRESHOLD
    /\ diff = Some(Halves(4))
    /\ setterCalls = <<ntp_ts[1]>>
    /\ setterReturned = Some(FALSE)
    /\ result = Some(FALSE)

\* C6: in write mode with offset <= threshold no writer is ever invoked and
\* sync() returns True straight from the decision.
C6_InSyncNoWrite ==
    (set_system /\ diff # None /\ FloatLe(diff[1], sync_threshold)) =>
        /\ setterCalls = <<>> /\ stratLog = <<>> /\ setterReturned = None
        /\ pc \in {"deciding", "returned", "exited", "raised"}
        /\ Done => result = Some(TRUE)

\* C6 witness: offset equal to the threshold 1.0, a writer at hand.
C6_Witness ==
    /\ set_system /\ time_setter # None
    /\ sync_threshold = SYNC_THRESHOLD
    /\ diff = Some(SYNC_THRESHOLD)
    /\ result = Some(TRUE)

\* C7 as stated: write mode without a writer always ends in False, with no
\* writer invoked.
C7_NoWriterAlwaysFails ==
    (set_system /\ time_setter = None /\ Done) =>
        /\ result = Some(FALSE)
        /\ setterCalls = <<>> /\ stratLog = <<>>

\* C7 amended: in write mode without a writer no writer is ever invoked,
\* and sync() returns False when the offset is above the threshold.
C7_NoWriterFailsAboveThreshold ==
    (set_system /\ time_setter = None) =>
        /\ setterCalls = <<>> /\ stratLog = <<>> /\ setterReturned = None
        /\ pc \notin InWriter
        /\ (Done /\ diff # None /\ FloatGt(diff[1], sync_threshold))
              => result = Some(FALSE)

\* C7 witness: --set-system on a platform get_time_setter knows no writer
\* for, offset above the threshold.
C7_Witness ==
    /\ entry = "main"
    /\ set_system /\ time_setter = None
    /\ diff # None /\ FloatGt(diff[1], sync_threshold)
    /\ result = Some(FALSE)

\* C8: without set_system no writer is ever invoked, and sync() returns
\* True whenever the query gave a timestamp.
C8_QueryOnly ==
    ~set_system =>
        /\ setterCalls = <<>> /\ stratLog = <<>> /\ setterReturned = None
        /\ pc \notin InWriter
        /\ (Done /\ ntp_ts # None) => result = Some(TRUE)

\* C8 witness: a writer was passed, the offset is above the threshold.
C8_Witness ==
    /\ ~set_system /\ time_setter # None
    /\ diff # None /\ FloatGt(diff[1], sync_threshold)
    /\ result = Some(TRUE)

\* C9: the Unix-family writer attempts A first and B only after A failed;
\* it returns True iff A succeeded or B (after A failed) succeeded.
C9_LinuxFallbackOrder ==
    time_setter = Some("LinuxTimeSetter") =>
        /\ Len(stratLog) <= 2
        /\ pc # "win_api"
        /\ Len(stratLog) >= 1 => stratLog[1][1] = "A"
        /\ Len(stratLog) = 2 => /\ stratLog[1][2] # "ok"
                                /\ stratLog[2][1] = "B"
        /\ pc = "date_cmd" => /\ Len(stratLog) = 1
                              /\ stratLog[1][2] # "ok"
        /\ setterReturned # None =>
              /\ Len(stratLog) >= 1
              /\ stratLog[1][2] # "ok" => Len(stratLog) = 2
              /\ setterReturned[1] =
                    (\/ stratLog[1][2] = "ok"
                     \/ Len(stratLog) = 2 /\ stratLog[2][2] = "ok")

\* C9 witness: A failed, then B failed, and the writer returned False.
C9_Witness ==
    /\ time_setter = Some("LinuxTimeSetter")
    /\ stratLog = << <<"A", "fail">>, <<"B", "CalledProcessError">> >>
    /\ setterReturned = Some(FALSE)
    /\ result = Some(FALSE)

\* C10: the Windows writer makes one Strategy A attempt and never runs the
\* libc or date-command steps; a failed native call or an exception makes
\* it return False.
C10_WindowsSingleAttempt ==
    time_setter = Some("WindowsTimeSetter") =>
        /\ Len(stratLog) <= 1
        /\ pc \notin {"libc", "date_cmd"}
        /\ \A i \in 1..Len(stratLog) : stratLog[i][1] = "A"
        /\ setterReturned # None =>
              /\ Len(stratLog) = 1
              /\ setterReturned[1] = (stratLog[1][2] = "ok")
        /\ (Len(stratLog) = 1 /\ stratLog[1][2] \in {"api_fail", "exception"})
              => setterReturned = Some(FALSE)

\* C10 witness: from the command line on Windows, an exception in the
\* native path ends the write with False.
C10_Witness ==
    /\ entry = "main"
    /\ time_setter = Some("WindowsTimeSetter")
    /\ stratLog = << <<"A", "exception">> >>
    /\ setterReturned = Some(FALSE)
    /\ result = Some(FALSE)


(***************************************************************************)
(* C11..C14: the packet codec and the offset, under PureSpec               *)
(***************************************************************************)
Parsed == fn = "parse_reply" /\ ret # None

\* C11: decoding a datagram shorter than 48 bytes takes the length-check
\* exit and yields no timestamp; a timestamp comes only from a datagram of
\* at least 48 bytes.
C11_ShortReplyNeverDecodes ==
    Parsed =>
        /\ Len(arg) < 48 => ret[1].kind = "short" /\ ret[1].ts = None
        /\ ret[1].ts # None => Len(arg) >= 48

C11_Witness ==
    /\ Parsed
    /\ Len(arg) = 47
    /\ ret[1].ts = None

Built == fn = "_build_packet" /\ ret # None

\* C12: the request built for the configured version is exactly 48 bytes
\* long; byte 0 is (0 << 6) | (version << 3) | 3, that is leap indicator 0
\* in bits 6-7, the version in bits 3-5 and mode 3 in bits 0-2; the other
\* 47 bytes are zero.
C12_RequestLayout ==
    Built =>
        /\ Len(ret[1]) = 48
        /\ ret[1][1] = 8 * arg + 3
        /\ ret[1][1] \div 64 = 0
        /\ (ret[1][1] \div 8) % 8 = arg
        /\ ret[1][1] % 8 = 3
        /\ \A i \in 2..48 : ret[1][i] = 0

C12_Witness ==
    /\ Built
    /\ arg = 4
    /\ ret[1][1] = 35
    /\ Len(ret[1]) = 48

\* x - y as a real number, without rounding
ExactSub(x, y) ==
    IF x.neg # y.neg
    THEN Float(x.neg, MagAdd(x.mag, y.mag))
    ELSE IF MagLess(x.mag, y.mag)
         THEN Float(~x.neg, MagSub(y.mag, x.mag))
         ELSE Float(x.neg, MagSub(x.mag, y.mag))

\* (seconds at offset 40) + (fraction at offset 44) / 2^32 - 2208988800 as
\* a real number, read off the datagram's bytes.
ExactUnix(data) ==
    ExactSub(Float(FALSE, <<data[41] * 256 + data[42],
                            data[43] * 256 + data[44],
                            data[45] * 256 + data[46],
                            data[47] * 256 + data[48]>>),
             NTP_DELTA)

\* |decoded - exact| in units of 2^-32 second
DecodeError == ExactSub(ret[1].ts[1], ExactUnix(arg)).mag

Decoded == Parsed /\ ret[1].ts # None

\* Datagrams of at least 48 bytes with the same bytes 40..47 decode alike.
OtherBytesIgnored ==
    \A d \in Datagrams :
        Len(d) >= 48 /\ Slice(d, 40, 48) = Slice(arg, 40, 48)
            => ParseReply(d) = ret[1]

\* C13 as stated: the decoded Unix timestamp is within 1/2^32 second of
\* seconds + fraction/2^32 - 2208988800 and independent of the other bytes.
C13_RecoveredWithinNtpResolution ==
    Decoded =>
        /\ ~MagLess(<<0, 0, 0, 1>>, DecodeError)
        /\ OtherBytesIgnored

\* C13 amended: the decoded Unix timestamp is within 2^-21 second (2048
\* units of 2^-32 s, the spacing of doubles just below 2^32) of
\* seconds + fraction/2^32 - 2208988800, is that value exactly when the
\* fraction's low 11 bits are zero, and is independent of the other bytes.
C13_RecoveredWithinDoubleSpacing ==
    Decoded =>
        /\ ~MagLess(<<0, 0, 0, 2048>>, DecodeError)
        /\ (arg[48] = 0 /\ arg[47] % 8 = 0) => DecodeError = MagZero
        /\ OtherBytesIgnored

\* base + 2^-22 s decodes to base: 1024 units of 2^-32 s are lost.
C13_Witness ==
    /\ Decoded
    /\ Len(arg) = 60
    /\ Slice(arg, 40, 48) = <<236, 0, 0, 0, 0, 0, 4, 0>>
    /\ DecodeError = <<0, 0, 0, 1024>>

Compared == fn = "offset" /\ ret # None

\* C14: the offset of server time arg[1] and local time arg[2] is the
\* absolute value of their difference: never negative, zero when the two
\* are equal, and the same when the two are swapped.
C14_OffsetIsAbsoluteDifference ==
    Compared =>
        /\ ~ret[1].neg
        /\ ret[1].mag = FloatRound(ExactSub(arg[1], arg[2]).mag)
        /\ arg[1] = arg[2] => ret[1] = Float(FALSE, MagZero)
        /\ Offset(arg[2], arg[1]) = ret[1]

\* server 1000.0, local 1005.0: offset 5.0 although the difference is -5.0
C14_Witness ==
    /\ Compared
    /\ arg[1] = Float(FALSE, <<0, 1000, 0, 0>>)
    /\ arg[2] = Float(FALSE, <<0, 1005, 0, 0>>)
    /\ ret[1] = Float(FALSE, <<0, 5, 0, 0>>)

(***************************************************************************)
(* C15..C20: sockets, exit status, interrupts, order and termination       *)
(***************************************************************************)
\* C15: at most one UDP socket is open at any time, and only while a query
\* attempt is exchanging datagrams: whenever an attempt has ended (reply,
\* timeout, resolution failure, socket error, ValueError, interrupt) its
\* socket is closed, so none is open when the next server is contacted, when
\* sync() returns or raises, or afterwards.
C15_SocketScopedToAttempt ==
    /\ sockOpen \in {0, 1}
    /\ sockOpen = 1 <=> pc = "exchange"
    /\ sockOpen = 1 => Len(contacted) = Len(returned) + 1

\* The first attempt timed out, the second one, interrupted, has ended too,
\* and no socket is open.
C15_Witness ==
    /\ Len(contacted) = 2
    /\ returned = <<None>>
    /\ lastFail = "timeout"
    /\ exc = "KeyboardInterrupt"
    /\ pc = "raised"
    /\ sockOpen = 0

\* C16: when main() has exited, the status is 0 exactly when sync()
\* returned True, 1 when sync() returned False, and 1 when an exception
\* other than KeyboardInterrupt left sync().
C16_ExitStatus ==
    pc = "exited" =>
        /\ exitStatus = Some(0) <=> result = Some(TRUE)
        /\ result = Some(FALSE) => exitStatus = Some(1)
        /\ exc \notin {"none", "KeyboardInterrupt"} => exitStatus = Some(1)
        /\ exitStatus \in {Some(0), Some(1), Some(130)}

\* settimeout(-1) raised ValueError in sync(); main() exited with 1.
C16_Witness ==
    /\ pc = "exited"
    /\ exc = "ValueError"
    /\ result = None
    /\ exitStatus = Some(1)

\* C17: a run of main() that was interrupted, in whatever phase, ends with
\* exit status 130: the interrupt is never left unhandled and never ends
\* with another status.
C17_InterruptExits130 ==
    (entry = "main" /\ exc = "KeyboardInterrupt") =>
        /\ pc \in {"raised", "exited"}
        /\ pc = "exited" => exitStatus = Some(130)

\* The phases of sync(): 1 QUERYING, 2 COMPARING, 3 WRITING, 4 DONE (sync
\* returned or raised); 0 before sync() is called, 5 after main() ended.
Phase(p) ==
    CASE p \in {"start", "init_logging", "get_time_setter"} -> 0
      [] p \in {"query", "exchange"} -> 1
      [] p \in {"comparing", "deciding"} -> 2
      [] p \in InWriter -> 3
      [] p \in {"returned", "raised"} -> 4
      [] OTHER -> 5

\* C18: every step of a run keeps the order QUERYING -> COMPARING ->
\* (DONE | WRITING -> DONE).  No step goes back to an earlier phase; the
\* candidate index never goes back (no retry); COMPARING is entered only
\* from QUERYING and with a timestamp; once QUERYING is left no server is
\* contacted and the timestamp is kept; the local clock is read and the
\* offset computed only in COMPARING, once; WRITING is entered only from
\* COMPARING, once, and the writer is called at most once.
C18_LinearOrder ==
    [][ /\ Phase(pc') >= Phase(pc)
        /\ idx' >= idx
        /\ (Phase(pc') = 2 /\ Phase(pc) # 2) => Phase(pc) = 1 /\ ntp_ts' # None
        /\ Phase(pc) >= 2 => contacted' = contacted /\ ntp_ts' = ntp_ts
        /\ (local_ts' # local_ts \/ diff' # diff)
              => /\ pc = "comparing"
                 /\ local_ts = None /\ diff = None
                 /\ ntp_ts # None
        /\ (Phase(pc') = 3 /\ Phase(pc) # 3)
              => pc = "deciding" /\ setterCalls = <<>> /\ diff # None
        /\ setterCalls' # setterCalls => Phase(pc') = 3 /\ Phase(pc) = 2
        /\ Len(setterCalls') <= 1
      ]_vars

\* A run that went through all four phases: two servers queried, the clock
\* compared, the writer called, sync() returned.
C18_Witness ==
    /\ pc = "returned"
    /\ Len(contacted) = 2
    /\ local_ts # None
    /\ Len(setterCalls) = 1
    /\ result # None

\* sync() has ended: it returned a result or an exception left it.
Ended == result # None \/ exc # "none"

\* The attempts made so far are the first candidates, each position once.
AttemptsWithin(list) ==
    /\ Len(contacted) <= Len(list)
    /\ \A i \in 1..Len(contacted) : contacted[i] = list[i]

\* C19 as stated, its bound on the attempts: at most serverCount, and at
\* most one whenever an override was given.
C19_OneAttemptWithAnyOverride ==
    /\ Len(contacted) <= Len(servers)
    /\ server # None => Len(contacted) <= 1

\* C19 amended: if every attempt and every writer call returns, sync()
\* eventually returns True or False; it makes at most serverCount attempts,
\* one per position of the configured list in order, or at most one, to the
\* override, when a non-empty override was given.
C19_TerminatesWithinServerCount ==
    /\ <>Ended
    /\ [](/\ IF Truthy(server) THEN AttemptsWithin(<<server[1]>>)
                                ELSE AttemptsWithin(servers)
          /\ (Ended /\ exc = "none") => result \in {Some(TRUE), Some(FALSE)})

\* All three default servers were tried, each once, and sync() returned
\* False.
C19_Witness ==
    /\ server = None
    /\ contacted = DEFAULT_SERVERS
    /\ result = Some(FALSE)
    /\ exc = "none"
    /\ pc = "returned"

\* The latest datagram received had at least 48 bytes.
LongReply == lastLen # None /\ lastLen[1] >= 48

\* C20: a reply of at least 48 bytes is accepted whatever it holds: its
\* decoded value is query()'s result, the loop over the candidates has
\* ended with it (no attempt is open or follows), and in write mode with
\* the offset above the threshold that value is what the writer is called
\* with.
C20_AnyLongReplyAccepted ==
    LongReply =>
        /\ lastFail = "ok"
        /\ ntp_ts # None
        /\ ntp_ts = returned[Len(returned)]
        /\ pc \notin {"query", "exchange"}
        /\ Len(contacted) = Len(returned)
        /\ (WriteCase /\ (pc \in InWriter \/ Done))
              => setterCalls = <<ntp_ts[1]>>

\* The first server's 48-byte reply with an all-zero transmit timestamp was
\* accepted: the other two default servers were not asked and the writer
\* was called with -2208988800.0.
C20_Witness ==
    /\ lastLen = Some(48)
    /\ servers = DEFAULT_SERVERS
    /\ contacted = <<"pool.ntp.org">>
    /\ ntp_ts = Some(NtpToUnix(<<0, 0>>, <<0, 0>>))
    /\ ntp_ts[1].neg
    /\ setterCalls = <<ntp_ts[1]>>
    /\ pc = "returned"

====
